---- MODULE Spec2Model ----
(***************************************************************************)
(* Zammad node, GenericFunctions.ts: the request executor                  *)
(* (zammadApiRequest), the paginated fetcher (zammadApiRequestAllItems)    *)
(* and the base-URL normaliser (tolerateTrailingSlash).                    *)
(*                                                                         *)
(* One logical thread of control.  A call is suspended at its awaits: the  *)
(* credential lookup (line 37) and the HTTP primitive (line 73).  The      *)
(* remote, the credential store and the caller are the environment.        *)
(*                                                                         *)
(* Strings that the code takes apart are sequences of tokens ("/" is a     *)
(* token of its own); objects are functions from keys to values, so that   *)
(* a deleted or never-set property is a key outside the DOMAIN.            *)
(***************************************************************************)
EXTENDS Integers, Sequences, FiniteSets, TLC

VARIABLES
    pc,          \* where the current call is suspended
    op,          \* the exported function the caller invoked
    args,        \* its scalar arguments: method, endpoint, limit
    credentials, \* what this.getCredentials('zammadApi') resolves to
    body,        \* the caller's body object (passed by reference)
    qs,          \* the caller's query object (passed by reference)
    entry,       \* history: body and qs as they were when the call was made
    options,     \* the request descriptor under construction / last issued
    returnData,  \* zammadApiRequestAllItems: accumulated items
    sent,        \* history: every descriptor handed to this.helpers.request
    inflight,    \* indices into sent of the requests not yet answered
    received,    \* history: the pages the remote answered with, in order
    httpError,   \* history: the error the HTTP primitive rejected with
    result       \* what the call returned or threw

vars == <<pc, op, args, credentials, body, qs, entry, options, returnData,
          sent, inflight, received, httpError, result>>

----------------------------------------------------------------------------
(* Bounds of the model *)

\* the remote holds data on pages 1..MaxPages; later pages are empty
MaxPages == 3

\* base URLs are token strings of at most this length
MaxUrlLen == 3

----------------------------------------------------------------------------
(* Objects *)

EmptyObject == <<>>

Keys(obj) == DOMAIN obj

SetKey(obj, k, v) == [x \in (DOMAIN obj) \cup {k} |-> IF x = k THEN v ELSE obj[x]]

DeleteKey(obj, k) == [x \in (DOMAIN obj) \ {k} |-> obj[x]]

----------------------------------------------------------------------------
(* Strings *)

Slash == "/"

endsWith(s, tok) == Len(s) > 0 /\ s[Len(s)] = tok

\* url.substr(0, n)
substr0(s, n) == SubSeq(s, 1, n)

\* faulty variant: leaves the URL as it is
tolerateTrailingSlash_none(url) == url

tolerateTrailingSlash(url) ==
    IF endsWith(url, Slash)
    THEN substr0(url, Len(url) - 1)
    ELSE url

ApiPrefix == <<Slash, "api", Slash, "v1">>

TokenPrefix == "Token token="

----------------------------------------------------------------------------
(* zammadApiRequest: the request descriptor *)

\* lines 29-35
InitialOptions(method, b, q) ==
    [method |-> method, body |-> b, qs |-> q, uri |-> <<>>, json |-> TRUE]

BasicAuthOptions(o, c, endpoint) ==
    LET baseUrl == tolerateTrailingSlash(c.baseUrl)
    IN  [x \in (DOMAIN o) \cup {"auth", "rejectUnauthorized"} |->
            CASE x = "auth" -> [user |-> c.username, pass |-> c.password]
              [] x = "uri" -> baseUrl \o ApiPrefix \o endpoint
              [] x = "rejectUnauthorized" -> ~c.allowUnauthorizedCerts
              [] OTHER -> o[x]]

\* faulty variant: the token branch also attaches the basic-auth pair
TokenAuthOptions_both(o, c, endpoint) ==
    LET baseUrl == tolerateTrailingSlash(c.baseUrl)
    IN  [x \in (DOMAIN o) \cup {"auth", "headers", "rejectUnauthorized"} |->
            CASE x = "auth" -> [user |-> c.username, pass |-> c.password]
              [] x = "headers" -> [Authorization |-> <<TokenPrefix, c.accessToken>>]
              [] x = "uri" -> baseUrl \o ApiPrefix \o endpoint
              [] x = "rejectUnauthorized" -> ~c.allowUnauthorizedCerts
              [] OTHER -> o[x]]

TokenAuthOptions(o, c, endpoint) ==
    LET baseUrl == tolerateTrailingSlash(c.baseUrl)
    IN  [x \in (DOMAIN o) \cup {"headers", "rejectUnauthorized"} |->
            CASE x = "headers" -> [Authorization |-> <<TokenPrefix, c.accessToken>>]
              [] x = "uri" -> baseUrl \o ApiPrefix \o endpoint
              [] x = "rejectUnauthorized" -> ~c.allowUnauthorizedCerts
              [] OTHER -> o[x]]

\* lines 39-62
WithAuth(o, c, endpoint) ==
    IF c.authType = "basicAuth" THEN BasicAuthOptions(o, c, endpoint)
    ELSE IF c.authType = "tokenAuth" THEN TokenAuthOptions(o, c, endpoint)
    ELSE o

\* lines 64-70
OmitEmpty(o, b, q) ==
    LET o1 == IF Keys(b) = {} THEN DeleteKey(o, "body") ELSE o
    IN  IF Keys(q) = {} THEN DeleteKey(o1, "qs") ELSE o1

----------------------------------------------------------------------------
(* zammadApiRequest: the catch block *)

ObjectAlreadyExists == "Object already exists!"

EntityAlreadyExists == "An entity with this name already exists."

Node == "Zammad"

\* faulty variant: hands the remote message on without the rewrite
RewriteMessage_never(e) == e

\* lines 75-77, for an error that has a payload
RewriteMessage(e) ==
    IF "error" \in DOMAIN e.error /\ e.error.error = ObjectAlreadyExists
    THEN [e EXCEPT !.error = [@ EXCEPT !.error = EntityAlreadyExists]]
    ELSE e

\* lines 74-80: reading error.error.error of an error without a payload
\* raises a TypeError inside the catch block, which escapes instead of the
\* NodeApiError
Catch(e) ==
    IF "error" \notin DOMAIN e
    THEN [kind |-> "TypeError"]
    ELSE [kind |-> "NodeApiError", node |-> Node, error |-> RewriteMessage(e)]

----------------------------------------------------------------------------
(* zammadApiRequestAllItems: the loop *)

PerPage == 20

\* lines 96-97
PagedQuery(q) == SetKey(SetKey(q, "per_page", PerPage), "page", 1)

\* faulty variant: the limit is never looked at
LimitExceeded_never(limit, data) == FALSE

\* line 103
LimitExceeded(limit, data) == limit # 0 /\ Len(data) > limit

\* faulty variant: the early exit returns all it has
Slice_all(data, limit) == data

\* line 104
Slice(data, limit) == SubSeq(data, 1, limit)

\* faulty variant: the page counter is not advanced
NextPage_stuck(q) == q

\* line 107
NextPage(q) == [q EXCEPT !["page"] = @ + 1]

\* faulty variant: a page shorter than per_page ends the loop
LoopContinues_short(responseData) == Len(responseData) >= PerPage

\* line 108
LoopContinues(responseData) == Len(responseData) # 0

----------------------------------------------------------------------------
(* The environment *)

Methods == {"GET", "POST"}

Endpoints == {<<Slash, "users">>}

Limits == {0, 5, 10, 25}

PageSizes == {0, 5, 20}

UrlTokens == {"h", Slash}

RECURSIVE TokenStrings(_)
TokenStrings(n) ==
    IF n = 0 THEN {<<>>}
    ELSE LET shorter == TokenStrings(n - 1)
         IN  shorter \cup {Append(s, t) : s \in {x \in shorter : Len(x) = n - 1},
                                          t \in UrlTokens}

BaseUrls == TokenStrings(MaxUrlLen)

Credentials(urls) ==
    [authType : {"basicAuth", "tokenAuth"},
     baseUrl : urls,
     username : {"u"}, password : {"p"}, accessToken : {"t"},
     allowUnauthorizedCerts : BOOLEAN]

CallerBodies == {EmptyObject, [name |-> "n"]}

CallerQueries == {EmptyObject, [query |-> "q"]}

\* the items of page `page` when the remote answers with n of them
RemotePage(page, n) == [i \in 1..n |-> <<page, i>>]

\* what the HTTP primitive rejects with: a non-success response with a JSON
\* body, one with a body that has no "error" member, a transport failure
\* (the cause is the payload), and errors that carry no payload at all
RemoteMessages == {ObjectAlreadyExists, EntityAlreadyExists, "Not found"}

HttpErrors ==
    {[name |-> "StatusCodeError", error |-> [error |-> m]] : m \in RemoteMessages}
    \cup {[name |-> "StatusCodeError", error |-> [errors |-> "invalid"]],
          [name |-> "RequestError", error |-> [code |-> "ECONNREFUSED"]],
          [name |-> "StatusCodeError"],
          [name |-> "Error"]}

NoError == [name |-> "none"]

NoResult == [kind |-> "none"]

NoArgs == [method |-> "", endpoint |-> <<>>, limit |-> 0]

----------------------------------------------------------------------------
(* State machine *)

Idle(c, b, q) ==
    /\ pc = "idle"
    /\ op = "none"
    /\ args = NoArgs
    /\ credentials = c
    /\ body = b
    /\ qs = q
    /\ entry = [body |-> b, qs |-> q]
    /\ options = EmptyObject
    /\ returnData = <<>>
    /\ sent = <<>>
    /\ inflight = {}
    /\ received = <<>>
    /\ httpError = NoError
    /\ result = NoResult

Init ==
    \E c \in Credentials({<<"h">>, <<"h", Slash>>}),
       b \in CallerBodies, q \in CallerQueries :
        Idle(c, b, q)

InitRequest ==
    \E c \in Credentials(BaseUrls), b \in CallerBodies, q \in CallerQueries :
        Idle(c, b, q)

\* zammadApiRequest is called; it runs to the credential lookup (lines 29-37)
CallRequest(method, endpoint) ==
    /\ pc = "idle"
    /\ pc' = "credentials"
    /\ op' = "zammadApiRequest"
    /\ args' = [method |-> method, endpoint |-> endpoint, limit |-> 0]
    /\ entry' = [body |-> body, qs |-> qs]
    /\ options' = InitialOptions(method, body, qs)
    /\ UNCHANGED <<credentials, body, qs, returnData, sent, inflight,
                   received, httpError, result>>

\* zammadApiRequestAllItems is called; it runs through lines 93-100 into the
\* first zammadApiRequest, up to the credential lookup
CallAllItems(method, endpoint, limit) ==
    /\ pc = "idle"
    /\ pc' = "credentials"
    /\ op' = "zammadApiRequestAllItems"
    /\ args' = [method |-> method, endpoint |-> endpoint, limit |-> limit]
    /\ entry' = [body |-> body, qs |-> qs]
    /\ returnData' = <<>>
    /\ qs' = PagedQuery(qs)
    /\ options' = InitialOptions(method, body, qs')
    /\ UNCHANGED <<credentials, body, sent, inflight, received, httpError,
                   result>>

\* the credentials arrive; the descriptor is completed and handed to
\* this.helpers.request (lines 37-73)
GetCredentials ==
    /\ pc = "credentials"
    /\ pc' = "request"
    /\ options' = OmitEmpty(WithAuth(options, credentials, args.endpoint),
                            body, qs)
    /\ sent' = Append(sent, options')
    /\ inflight' = inflight \cup {Len(sent')}
    /\ UNCHANGED <<op, args, credentials, body, qs, entry, returnData,
                   received, httpError, result>>

\* zammadApiRequest called on its own: the response is returned (line 73)
RequestOk(n) ==
    /\ pc = "request"
    /\ op = "zammadApiRequest"
    /\ pc' = "returned"
    /\ inflight' = {}
    /\ received' = Append(received, RemotePage(1, n))
    /\ result' = [kind |-> "value", value |-> RemotePage(1, n)]
    /\ UNCHANGED <<op, args, credentials, body, qs, entry, options,
                   returnData, sent, httpError>>

\* one turn of the loop after the await: lines 100-108, and on another turn
\* the next zammadApiRequest up to its credential lookup
PageOk(n) ==
    /\ pc = "request"
    /\ op = "zammadApiRequestAllItems"
    /\ options.qs["page"] > MaxPages => n = 0
    /\ LET responseData == RemotePage(options.qs["page"], n)
           pushed == returnData \o responseData
       IN  /\ inflight' = {}
           /\ received' = Append(received, responseData)
           /\ returnData' = pushed
           /\ IF LimitExceeded(args.limit, pushed)
              THEN /\ result' = [kind |-> "value",
                                 value |-> Slice(pushed, args.limit)]
                   /\ pc' = "returned"
                   /\ UNCHANGED <<qs, options>>
              ELSE /\ qs' = NextPage(qs)
                   /\ IF LoopContinues(responseData)
                      THEN /\ options' = InitialOptions(args.method, body, qs')
                           /\ pc' = "credentials"
                           /\ UNCHANGED result
                      ELSE /\ result' = [kind |-> "value", value |-> pushed]
                           /\ pc' = "returned"
                           /\ UNCHANGED options
    /\ UNCHANGED <<op, args, credentials, body, entry, sent, httpError>>

\* faulty variant: a failed request is issued again
RequestFail_retry(e) ==
    /\ pc = "request"
    /\ pc' = "credentials"
    /\ inflight' = {}
    /\ httpError' = e
    /\ UNCHANGED <<op, args, credentials, body, qs, entry, options,
                   returnData, sent, received, result>>

\* the HTTP primitive rejects: the catch block of lines 74-80 runs and what
\* it throws leaves zammadApiRequest, and zammadApiRequestAllItems, which
\* has no handler
RequestFail(e) ==
    /\ pc = "request"
    /\ pc' = "threw"
    /\ inflight' = {}
    /\ httpError' = e
    /\ result' = Catch(e)
    /\ UNCHANGED <<op, args, credentials, body, qs, entry, options,
                   returnData, sent, received>>

\* the caller takes the outcome; its body and query objects live on
Resume ==
    /\ pc \in {"returned", "threw"}
    /\ pc' = "idle"
    /\ op' = "none"
    /\ args' = NoArgs
    /\ entry' = [body |-> body, qs |-> qs]
    /\ options' = EmptyObject
    /\ returnData' = <<>>
    /\ sent' = <<>>
    /\ inflight' = {}
    /\ received' = <<>>
    /\ httpError' = NoError
    /\ result' = NoResult
    /\ UNCHANGED <<credentials, body, qs>>

Next ==
    \/ \E m \in Methods, e \in Endpoints : CallRequest(m, e)
    \/ \E m \in Methods, e \in Endpoints, l \in Limits : CallAllItems(m, e, l)
    \/ GetCredentials
    \/ \E n \in PageSizes : RequestOk(n)
    \/ \E n \in PageSizes : PageOk(n)
    \/ \E e \in HttpErrors : RequestFail(e)
    \/ Resume

Spec == Init /\ [][Next]_vars

NextRequest ==
    \/ \E m \in Methods, e \in Endpoints : CallRequest(m, e)
    \/ GetCredentials
    \/ \E n \in PageSizes : RequestOk(n)
    \/ \E e \in HttpErrors : RequestFail(e)
    \/ Resume

SpecRequest == InitRequest /\ [][NextRequest]_vars

----------------------------------------------------------------------------
(* Properties *)

IsAllItems == op = "zammadApiRequestAllItems"

RECURSIVE Flatten(_)
Flatten(ps) == IF ps = <<>> THEN <<>> ELSE Head(ps) \o Flatten(Tail(ps))

PagesOf(reqs) == [k \in 1..Len(reqs) |-> reqs[k].qs["page"]]

\* the remote answered pages 1, 2, 3 with 20, 20 and 5 items and every later
\* request with the empty page
Remote20_20_5 ==
    /\ Len(received) >= 3
    /\ Len(received[1]) = 20 /\ Len(received[2]) = 20 /\ Len(received[3]) = 5
    /\ \A k \in 4..Len(received) : received[k] = <<>>

Items45 == RemotePage(1, 20) \o RemotePage(2, 20) \o RemotePage(3, 5)

\* C1 as stated: with limit = 0 and remote pages of 20, 20, 5 items and none
\* afterwards, the fetcher returns after exactly 3 requests (page = 1, 2, 3)
\* with the 45 items in page order.
C1_ThreeRequests ==
    (IsAllItems /\ args.limit = 0 /\ pc = "returned" /\ Remote20_20_5)
        => /\ Len(sent) = 3
           /\ PagesOf(sent) = <<1, 2, 3>>
           /\ result.value = Items45

\* C1 amended: with limit = 0 and remote pages of 20, 20, 5 items and none
\* afterwards, the short third page does not end the loop: the fetcher
\* issues exactly 4 requests, page = 1, 2, 3, 4 in that order, the fourth
\* answered by the empty page, and returns the 45 items in page order.
C1_FourRequests ==
    (IsAllItems /\ args.limit = 0 /\ Remote20_20_5)
        => /\ Len(received) = 3 => pc # "returned"
           /\ pc = "returned"
                => /\ Len(sent) = 4
                   /\ PagesOf(sent) = <<1, 2, 3, 4>>
                   /\ received[4] = <<>>
                   /\ result = [kind |-> "value", value |-> Items45]

C1_Witness ==
    IsAllItems /\ args.limit = 0 /\ pc = "returned" /\ Remote20_20_5

\* C2: with limit > 0, as soon as the accumulated items outnumber limit the
\* fetcher returns exactly the first limit items of the concatenation of the
\* pages in fetch order and no request follows; with limit = 10 and a first
\* page of 20 items that is the first 10 items after exactly 1 request.
C2_LimitTruncates ==
    (IsAllItems /\ args.limit > 0)
        => /\ Len(Flatten(received)) > args.limit
                => /\ pc = "returned"
                   /\ inflight = {}
                   /\ Len(sent) = Len(received)
                   /\ result = [kind |-> "value",
                                value |-> SubSeq(Flatten(received), 1, args.limit)]
           /\ (args.limit = 10 /\ received # <<>> /\ Len(received[1]) = 20)
                => /\ pc = "returned"
                   /\ Len(sent) = 1
                   /\ result.value = RemotePage(1, 10)

C2_Witness ==
    /\ IsAllItems /\ args.limit = 10 /\ pc = "returned"
    /\ Len(received[1]) = 20
    /\ Len(result.value) = 10

\* C3: in the paginated fetcher a failed page request propagates at once:
\* the step in which the HTTP primitive rejects ends the call with a thrown
\* error (no list, partial or not, is returned), issues no request and
\* leaves none outstanding, and after it the call does nothing more (the
\* failed page is not asked for again, no later page is asked for).
C3_FailurePropagates ==
    [][IsAllItems =>
        /\ (pc = "request" /\ httpError' # NoError)
              => /\ pc' = "threw"
                 /\ result'.kind \in {"NodeApiError", "TypeError"}
                 /\ sent' = sent
                 /\ inflight' = {}
        /\ pc = "threw" => (pc' = "idle" /\ inflight' = {})]_vars

C3_Witness ==
    /\ IsAllItems /\ pc = "threw"
    /\ Len(received) = 2 /\ returnData # <<>>
    /\ Len(sent) = 3
    /\ result.kind = "NodeApiError"

\* C4: within one call of the paginated fetcher at most one request is
\* outstanding, it is the one issued last, every earlier request was
\* answered before it was issued, and the k-th request carries page = k and
\* per_page = 20.
C4_Sequential ==
    IsAllItems =>
        /\ Cardinality(inflight) <= 1
        /\ inflight \subseteq {Len(sent)}
        /\ Len(sent) = Len(received) + Cardinality(inflight)
                       + (IF httpError # NoError THEN 1 ELSE 0)
        /\ \A k \in 1..Len(sent) :
              /\ sent[k].qs["page"] = k
              /\ sent[k].qs["per_page"] = 20

C4_Witness ==
    IsAllItems /\ Len(sent) = 3 /\ inflight = {3} /\ Len(received) = 2

HasMessage(e) == "error" \in DOMAIN e /\ "error" \in DOMAIN e.error

\* the message of the error wrapped by the NodeApiError
Carried(r) == r.error.error.error

\* C5 as stated: when the HTTP primitive fails with a remote message, the
\* raised error carries "An entity with this name already exists." if and
\* only if the remote message was exactly "Object already exists!", and
\* every other remote message is carried unchanged.
C5_RewrittenIff ==
    (pc = "threw" /\ HasMessage(httpError))
        => /\ result.kind = "NodeApiError"
           /\ (Carried(result) = EntityAlreadyExists
                 <=> httpError.error.error = ObjectAlreadyExists)
           /\ httpError.error.error # ObjectAlreadyExists
                 => Carried(result) = httpError.error.error

\* C5 amended: the remote message "Object already exists!" is raised as
\* "An entity with this name already exists."; every other remote message
\* is carried unchanged, so the raised error carries the rewritten text if
\* and only if the remote message was "Object already exists!" or was that
\* text already.
C5_Rewritten ==
    (pc = "threw" /\ HasMessage(httpError))
        => /\ result.kind = "NodeApiError"
           /\ (Carried(result) = EntityAlreadyExists
                 <=> httpError.error.error
                        \in {ObjectAlreadyExists, EntityAlreadyExists})
           /\ httpError.error.error # ObjectAlreadyExists
                 => Carried(result) = httpError.error.error

C5_Witness ==
    /\ pc = "threw" /\ HasMessage(httpError)
    /\ httpError.error.error = ObjectAlreadyExists
    /\ Carried(result) = EntityAlreadyExists

\* C6: every failure of the HTTP primitive, whatever the shape of the error
\* object, reaches the caller as a NodeApiError that carries the node.
C6_AlwaysNodeApiError ==
    pc = "threw" => (result.kind = "NodeApiError" /\ result.node = Node)

\* C7: after any call the caller's body and query objects hold exactly the
\* keys and values they held before the call.
C7_InputsUntouched ==
    pc \in {"returned", "threw"} => (qs = entry.qs /\ body = entry.body)

\* the normalised base URL a request was built from: the URL without the
\* "/api/v1" and endpoint appended to it
BaseOf(o) == SubSeq(o.uri, 1, Len(o.uri) - Len(ApiPrefix) - Len(args.endpoint))

\* C8 as stated: for every baseUrl the normalised base URL used to build
\* the request URL does not end with "/".
C8_NoTrailingSlash ==
    pc = "request" => ~endsWith(BaseOf(options), Slash)

\* C8 amended: the normalised base URL is baseUrl without its last "/" when
\* baseUrl ends with "/" and baseUrl itself otherwise; it ends with "/"
\* only when baseUrl ends with two or more of them.
C8_OneSlashStripped ==
    pc = "request" =>
        LET u == credentials.baseUrl
            b == BaseOf(options)
        IN  /\ endsWith(u, Slash) => b \o <<Slash>> = u
            /\ ~endsWith(u, Slash) => b = u
            /\ endsWith(b, Slash)
                 => (Len(u) >= 2 /\ u[Len(u)] = Slash /\ u[Len(u) - 1] = Slash)

C8_Witness ==
    /\ pc = "request"
    /\ endsWith(credentials.baseUrl, Slash)
    /\ ~endsWith(BaseOf(options), Slash)
    /\ BaseOf(options) # <<>>

HasBasicAuth(o) == "auth" \in DOMAIN o

HasAuthorization(o) == "headers" \in DOMAIN o /\ "Authorization" \in DOMAIN o.headers

\* C9: every request issued carries exactly one authentication scheme: the
\* username/password pair and no Authorization header under basicAuth, the
\* header "Token token=<accessToken>" and no pair under tokenAuth.
C9_OneAuthScheme ==
    \A k \in 1..Len(sent) :
        LET o == sent[k]
        IN  /\ HasBasicAuth(o) # HasAuthorization(o)
            /\ credentials.authType = "basicAuth"
                 => /\ HasBasicAuth(o)
                    /\ o.auth = [user |-> credentials.username,
                                 pass |-> credentials.password]
            /\ credentials.authType = "tokenAuth"
                 => /\ HasAuthorization(o)
                    /\ o.headers.Authorization
                         = <<TokenPrefix, credentials.accessToken>>

C9_Witness ==
    /\ Len(sent) = 1 /\ inflight = {1}
    /\ credentials.authType = "tokenAuth"
    /\ HasAuthorization(sent[1])

\* C10: for limit > 0 the list the paginated fetcher returns has at most
\* limit items, on the truncating exit and on the exit taken when an empty
\* page comes back.
C10_AtMostLimit ==
    (IsAllItems /\ args.limit > 0 /\ pc = "returned")
        => Len(result.value) <= args.limit

\* the empty-page exit with exactly limit items accumulated
C10_Witness ==
    /\ IsAllItems /\ args.limit > 0 /\ pc = "returned"
    /\ received[Len(received)] = <<>>
    /\ Len(result.value) = args.limit

====
